---- MODULE Spec2Model ----
(***************************************************************************)
(* Model of src/src/lib.rs: the wasm-bindgen export surface of the crate   *)
(* (greet, age_comparator), the disabled definition of add, and a host     *)
(* that calls the module one synchronous call at a time.                   *)
(*                                                                         *)
(* Text is modelled by TLA+ strings; format! is modelled by a scan of its  *)
(* template, and the Display of an i8 by its digit-by-digit rendering.     *)
(* Every call ends in an outcome: the function returned a value, it        *)
(* panicked, or the module has no such export.                             *)
(***************************************************************************)
EXTENDS Integers, Sequences, FiniteSets, TLC

VARIABLES call, result, watch

vars == <<call, result, watch>>

---------------------------------------------------------------------------
(* Bounds of the model *)

\* u64 is modelled with WordBits bits: values 0 .. 2^WordBits - 1.
WordBits == 8

\* host-supplied names are all texts over Alphabet of at most MaxNameLen chars
MaxNameLen == 3

---------------------------------------------------------------------------
(* Types of the program *)

\* i8, the type of age_comparator's parameter
I8Min == -128
I8Max == 127
I8 == I8Min .. I8Max

Modulus == 2 ^ WordBits
U64Max == Modulus - 1
U64 == 0 .. U64Max

\* the operands a host passes to add: both ends of the range, the middle,
\* and the small values of the crate's own test
U64Samples == {0, 1, 2, Modulus \div 2, U64Max - 1, U64Max}

Alphabet == {"o", " ", "{", "}"}

RECURSIVE TextsUpTo(_)
TextsUpTo(n) ==
    IF n = 0 THEN {""}
    ELSE LET shorter == TextsUpTo(n - 1)
         IN  shorter \cup {t \o c : t \in shorter, c \in Alphabet}

\* the names a host passes to greet
Names == TextsUpTo(MaxNameLen) \cup {"World", " World {} "}

---------------------------------------------------------------------------
(* Outcomes of a call *)

RetText(t) == [kind |-> "returned", type |-> "String", num |-> 0, text |-> t]
RetNum(n) == [kind |-> "returned", type |-> "u64", num |-> n, text |-> ""]
Panicked == [kind |-> "panicked", type |-> "none", num |-> 0, text |-> ""]
NoExport == [kind |-> "no_export", type |-> "none", num |-> 0, text |-> ""]
NoResult == [kind |-> "none", type |-> "none", num |-> 0, text |-> ""]

---------------------------------------------------------------------------
(* core::fmt as used by the crate *)

DigitChar(d) == SubSeq("0123456789", d + 1, d + 1)

RECURSIVE Digits(_)
Digits(n) ==
    IF n < 10 THEN DigitChar(n)
    ELSE Digits(n \div 10) \o DigitChar(n % 10)

\* Display for i8, the `{}` of an i8 argument
Display_i8(n) == IF n < 0 THEN "-" \o Digits(-n) ELSE Digits(n)

\* format!(fmt, args...): literal characters are copied, each `{}` is
\* replaced by the next argument; the arguments are not scanned again.
RECURSIVE FormatFrom(_, _, _)
FormatFrom(fmt, i, args) ==
    IF i > Len(fmt) THEN ""
    ELSE IF i < Len(fmt) /\ SubSeq(fmt, i, i + 1) = "{}"
         THEN Head(args) \o FormatFrom(fmt, i + 2, Tail(args))
         ELSE SubSeq(fmt, i, i) \o FormatFrom(fmt, i + 1, args)

Format(fmt, args) == FormatFrom(fmt, 1, args)

\* Ord::cmp
cmp(a, b) ==
    IF a < b THEN "Less" ELSE IF a > b THEN "Greater" ELSE "Equal"

---------------------------------------------------------------------------
(* The functions of lib.rs *)

eligible_age == 18

\* lib.rs:1-3, commented out: `left + right` on u64. An overflowing sum
\* panics in a build with overflow checks and wraps in a build without.
add(left, right) ==
    IF left + right <= U64Max
    THEN {RetNum(left + right)}
    ELSE {RetNum((left + right) % Modulus), Panicked}

\* str::trim_start / trim_end on ' '
RECURSIVE TrimStart(_)
TrimStart(t) ==
    IF Len(t) > 0 /\ SubSeq(t, 1, 1) = " " THEN TrimStart(SubSeq(t, 2, Len(t)))
    ELSE t

RECURSIVE TrimEnd(_)
TrimEnd(t) ==
    IF Len(t) > 0 /\ SubSeq(t, Len(t), Len(t)) = " "
    THEN TrimEnd(SubSeq(t, 1, Len(t) - 1))
    ELSE t

\* variant of greet: the name is trimmed before it is formatted
greet_trimmed(name) == RetText(Format("Hello, {}!", <<TrimEnd(TrimStart(name))>>))

\* variant of greet: the output buffer of the previous call is not cleared
greet_stale_buffer(name) ==
    RetText(result.text \o Format("Hello, {}!", <<name>>))

greet(name) == RetText(Format("Hello, {}!", <<name>>))

\* variant of age_comparator: the threshold is folded into the eligible arm
age_comparator_folded(age) ==
    IF age >= eligible_age
    THEN RetText(Format("You are {} Eligible To Vote", <<Display_i8(age)>>))
    ELSE RetText(Format("You are {} Not Eligible To Vote", <<Display_i8(age)>>))

\* variant of age_comparator: the Greater and Less arms are exchanged
age_comparator_swapped(age) ==
    LET ord == cmp(age, eligible_age)
    IN  CASE ord = "Less" ->
                RetText(Format("You are {} Eligible To Vote", <<Display_i8(age)>>))
          [] ord = "Greater" ->
                RetText(Format("You are {} Not Eligible To Vote", <<Display_i8(age)>>))
          [] ord = "Equal" ->
                RetText(Format("Congrats You gained the Rights to Vote", <<>>))

\* variant of age_comparator: the age is displayed as a u8 (age as u8)
age_comparator_as_u8(age) ==
    LET ord == cmp(age, eligible_age)
        shown == Digits(age % 256)
    IN  CASE ord = "Greater" ->
                RetText(Format("You are {} Eligible To Vote", <<shown>>))
          [] ord = "Less" ->
                RetText(Format("You are {} Not Eligible To Vote", <<shown>>))
          [] ord = "Equal" ->
                RetText(Format("Congrats You gained the Rights to Vote", <<>>))

\* variant of age_comparator: a negative age is rejected
age_comparator_validated(age) ==
    LET ord == cmp(age, eligible_age)
    IN  IF age < 0 THEN Panicked
        ELSE CASE ord = "Greater" ->
                RetText(Format("You are {} Eligible To Vote", <<Display_i8(age)>>))
          [] ord = "Less" ->
                RetText(Format("You are {} Not Eligible To Vote", <<Display_i8(age)>>))
          [] ord = "Equal" ->
                RetText(Format("Congrats You gained the Rights to Vote", <<>>))

\* variant of age_comparator: the magnitude of the age is displayed
age_comparator_magnitude(age) ==
    LET ord == cmp(age, eligible_age)
        shown == Digits(IF age < 0 THEN -age ELSE age)
    IN  CASE ord = "Greater" ->
                RetText(Format("You are {} Eligible To Vote", <<shown>>))
          [] ord = "Less" ->
                RetText(Format("You are {} Not Eligible To Vote", <<shown>>))
          [] ord = "Equal" ->
                RetText(Format("Congrats You gained the Rights to Vote", <<>>))

age_comparator(age) ==
    LET ord == cmp(age, eligible_age)
    IN  CASE ord = "Greater" ->
                RetText(Format("You are {} Eligible To Vote", <<Display_i8(age)>>))
          [] ord = "Less" ->
                RetText(Format("You are {} Not Eligible To Vote", <<Display_i8(age)>>))
          [] ord = "Equal" ->
                RetText(Format("Congrats You gained the Rights to Vote", <<>>))

\* variant of Exports: add is compiled and exported as well
Exports_with_add == {"add", "greet", "age_comparator"}

\* variant of Exports: age_comparator carries no #[wasm_bindgen]
Exports_without_age_comparator == {"greet"}

\* the functions carrying #[wasm_bindgen]; add is commented out
Exports == {"greet", "age_comparator"}

---------------------------------------------------------------------------
(* The host *)

NoCall == [op |-> "none", left |-> 0, right |-> 0, name |-> "", age |-> 0]
AddCall(l, r) == [NoCall EXCEPT !.op = "add", !.left = l, !.right = r]
GreetCall(n) == [NoCall EXCEPT !.op = "greet", !.name = n]
AgeCall(a) == [NoCall EXCEPT !.op = "age_comparator", !.age = a]

\* the names a host may try to call
HostOps == {"add", "greet", "age_comparator"}

\* greet and age_comparator over the arguments the host draws
GreetTable == [n \in Names |-> greet(n)]
AgeTable == [a \in I8 |-> age_comparator(a)]

\* the outcomes the module can produce for a call
Outcomes(c) ==
    IF c.op \notin Exports THEN {NoExport}
    ELSE CASE c.op = "add" -> add(c.left, c.right)
           [] c.op = "greet" -> {GreetTable[c.name]}
           [] c.op = "age_comparator" -> {AgeTable[c.age]}

\* The observer: one call whose first outcome is remembered, and whether
\* any other call has run since.
NoWatch == [on |-> FALSE, call |-> NoCall, seen |-> FALSE, others |-> FALSE,
            result |-> NoResult]

Watched == {AddCall(2, 2), GreetCall("World"), AgeCall(18), AgeCall(-1)}

Observe(w, c, r) ==
    IF ~w.on THEN w
    ELSE IF c = w.call
         THEN IF w.seen THEN w
              ELSE [w EXCEPT !.seen = TRUE, !.result = r]
         ELSE IF w.seen THEN [w EXCEPT !.others = TRUE] ELSE w

CallAdd ==
    \E l \in U64Samples, r \in U64Samples :
        /\ call' = AddCall(l, r)
        /\ result' \in Outcomes(call')
        /\ watch' = Observe(watch, call', result')

CallGreet ==
    \E n \in Names :
        /\ call' = GreetCall(n)
        /\ result' \in Outcomes(call')
        /\ watch' = Observe(watch, call', result')

CallAgeComparator ==
    \E a \in I8 :
        /\ call' = AgeCall(a)
        /\ result' \in Outcomes(call')
        /\ watch' = Observe(watch, call', result')

Init ==
    /\ call = NoCall
    /\ result = NoResult
    /\ watch = NoWatch

InitWatch ==
    /\ call = NoCall
    /\ result = NoResult
    /\ \E c \in Watched : watch = [NoWatch EXCEPT !.on = TRUE, !.call = c]

Next == CallAdd \/ CallGreet \/ CallAgeComparator

Spec == Init /\ [][Next]_vars

SpecWatch == InitWatch /\ [][Next]_vars

---------------------------------------------------------------------------
(* Reading a message back: the decimal numerals *)

DecimalDigits == {"0", "1", "2", "3", "4", "5", "6", "7", "8", "9"}

DigitValue(c) ==
    CASE c = "0" -> 0 [] c = "1" -> 1 [] c = "2" -> 2 [] c = "3" -> 3
      [] c = "4" -> 4 [] c = "5" -> 5 [] c = "6" -> 6 [] c = "7" -> 7
      [] c = "8" -> 8 [] c = "9" -> 9

RECURSIVE NumeralValue(_)
NumeralValue(t) ==
    IF Len(t) = 0 THEN 0
    ELSE 10 * NumeralValue(SubSeq(t, 1, Len(t) - 1))
         + DigitValue(SubSeq(t, Len(t), Len(t)))

\* t is the numeral of the natural number m: digits only, no leading zero
IsNumeralOf(t, m) ==
    /\ Len(t) >= 1
    /\ \A i \in 1 .. Len(t) : SubSeq(t, i, i) \in DecimalDigits
    /\ Len(t) > 1 => SubSeq(t, 1, 1) # "0"
    /\ NumeralValue(t) = m

\* t is the decimal rendering of the integer n: a minus sign exactly when n < 0
IsDecimalOf(t, n) ==
    IF n < 0
    THEN /\ Len(t) >= 2
         /\ SubSeq(t, 1, 1) = "-"
         /\ IsNumeralOf(SubSeq(t, 2, Len(t)), -n)
    ELSE IsNumeralOf(t, n)

\* t is prefix, then the decimal rendering of n, then suffix, and nothing else
IsMessageFor(t, prefix, suffix, n) ==
    /\ Len(t) >= Len(prefix) + Len(suffix)
    /\ SubSeq(t, 1, Len(prefix)) = prefix
    /\ SubSeq(t, Len(t) - Len(suffix) + 1, Len(t)) = suffix
    /\ IsDecimalOf(SubSeq(t, Len(prefix) + 1, Len(t) - Len(suffix)), n)

IsEligibleMessage(t, n) == IsMessageFor(t, "You are ", " Eligible To Vote", n)
IsNotEligibleMessage(t, n) == IsMessageFor(t, "You are ", " Not Eligible To Vote", n)
CongratsMessage == "Congrats You gained the Rights to Vote"

ReturnedText == result.kind = "returned" /\ result.type = "String"

---------------------------------------------------------------------------
(* Claims *)

\* C1: age_comparator(18) returns exactly "Congrats You gained the Rights to
\* Vote"; 18 is neither an Eligible nor a Not Eligible case, and no other age
\* in -128..127 yields this message.
Theorem_C1 ==
    call.op = "age_comparator" =>
        /\ ReturnedText
        /\ (result.text = CongratsMessage) <=> (call.age = 18)
        /\ call.age = 18 =>
              /\ ~IsEligibleMessage(result.text, 18)
              /\ ~IsNotEligibleMessage(result.text, 18)

Witness_C1 ==
    /\ call = AgeCall(18)
    /\ result = RetText("Congrats You gained the Rights to Vote")

\* C2: for every age in 19..127, age_comparator(age) returns exactly
\* "You are {age} Eligible To Vote", {age} being the decimal rendering of age.
Theorem_C2 ==
    (call.op = "age_comparator" /\ call.age > 18) =>
        /\ ReturnedText
        /\ IsEligibleMessage(result.text, call.age)
        /\ call.age = 20 => result.text = "You are 20 Eligible To Vote"
        /\ call.age = 127 => result.text = "You are 127 Eligible To Vote"

Witness_C2 ==
    /\ call = AgeCall(20)
    /\ result = RetText("You are 20 Eligible To Vote")

\* C3: for every age in -128..17, negative ages included, age_comparator(age)
\* returns exactly "You are {age} Not Eligible To Vote", {age} being the
\* decimal rendering of age; a negative age is not rejected.
Theorem_C3 ==
    (call.op = "age_comparator" /\ call.age < 18) =>
        /\ ReturnedText
        /\ IsNotEligibleMessage(result.text, call.age)
        /\ call.age = 15 => result.text = "You are 15 Not Eligible To Vote"
        /\ call.age = -128 => result.text = "You are -128 Not Eligible To Vote"

Witness_C3 ==
    /\ call = AgeCall(-7)
    /\ result = RetText("You are -7 Not Eligible To Vote")

\* C4: for every text s, greet(s) returns exactly "Hello, " + s + "!" with s
\* copied unchanged; greet("") is "Hello, !" and greet("World") is
\* "Hello, World!".
Theorem_C4 ==
    call.op = "greet" =>
        /\ ReturnedText
        /\ result.text = "Hello, " \o call.name \o "!"
        /\ Len(result.text) = Len(call.name) + 8
        /\ SubSeq(result.text, 8, Len(result.text) - 1) = call.name
        /\ call.name = "" => result.text = "Hello, !"
        /\ call.name = "World" => result.text = "Hello, World!"

Witness_C4 ==
    /\ call = GreetCall(" World {} ")
    /\ result = RetText("Hello,  World {} !")

Theorem_C9 ==
    /\ call.op = "greet" => ReturnedText
    /\ call.op = "age_comparator" =>
          /\ ReturnedText
          /\ Cardinality({k \in {"above", "below", "equal"} :
                 \/ k = "above" /\ call.age > 18
                               /\ IsEligibleMessage(result.text, call.age)
                 \/ k = "below" /\ call.age < 18
                               /\ IsNotEligibleMessage(result.text, call.age)
                 \/ k = "equal" /\ call.age = 18
                               /\ result.text = CongratsMessage}) = 1

Witness_C9 ==
    /\ call = AgeCall(-128)
    /\ result.kind = "returned"
    /\ result.type = "String"

\* C10: age_comparator is injective on -128..127: no other age has the
\* message of the age just passed, so the age and its class can be read back
\* from the text; an Eligible message is never a Not Eligible message or the
\* message of 18.
Theorem_C10 ==
    call.op = "age_comparator" =>
        /\ \A other \in I8 : other # call.age => age_comparator(other) # result
        /\ \A n \in I8 :
              /\ IsEligibleMessage(result.text, n) => (n = call.age /\ n > 18)
              /\ IsNotEligibleMessage(result.text, n) => (n = call.age /\ n < 18)
        /\ result.text = CongratsMessage => call.age = 18

Witness_C10 ==
    /\ call = AgeCall(-18)
    /\ result = RetText("You are -18 Not Eligible To Vote")

====
